---- MODULE Spec2Model ----
(***************************************************************************)
(* Model of dashboard.py ("Panel Financiero"): the cached loader that      *)
(* left-joins the fact table with five dimension tables, filter_data, and  *)
(* the metrics and grouped aggregates computed by main.                    *)
(*                                                                         *)
(* Tables are sequences of records.  Column names are the CSV column names *)
(* without blanks ("State Province" -> StateProvince).  A missing value of *)
(* a numeric column is NaN, a missing value of a text column is NA.  A     *)
(* table holds a Unit Price as the CSV writes it, in hundredths; pandas    *)
(* computes with the binary64 float nearest to it.  Tax amounts are whole  *)
(* amounts.  avg_unit_price is kept in hundredths because the code rounds  *)
(* it to two decimals.                                                     *)
(***************************************************************************)
EXTENDS Integers, Sequences, FiniteSets, TLC

VARIABLES
    factsale,        \* Data/FactSale.csv
    dimcustomer,     \* Data/DimCostumer.csv
    dimcity,         \* Data/DimCity.csv
    dimemployee,     \* Data/DimEmployee.csv
    dimstockitem,    \* Data/DimStockItem.csv
    dimdate,         \* Data/DimDate.csv
    present,         \* the files that exist in Data/
    cache,           \* st.cache_data entry of load_data
    lock,            \* holder of the cache's compute lock
    pc,              \* per session: the last step of main that has completed
    ret,             \* per session: outcome of the load_data() call (df)
    instance,        \* per session: the object df refers to (0: none)
    computes,        \* number of cache writes (2 stands for "more than one")
    staleRead,       \* load_data's body ran although the cache was filled
    everFailed,      \* some load_data() call has raised
    reads,           \* per session: files read so far by load_data's body
    missing,         \* files absent ever since the running body began
    selected_state,  \* per session: selectbox 'Seleccionar Estado:'
    selected_year,   \* per session: selectbox 'Seleccionar A~no:'
    filtered_df,     \* per session: outcome of main's filter_data call
    summary,         \* per session: metrics and chart inputs computed so far
    caller,          \* "filter_data" while a direct call of it has returned
    arg_state,       \* direct call: argument selected_state
    arg_year,        \* direct call: argument selected_year
    result           \* direct call: outcome

vars == <<factsale, dimcustomer, dimcity, dimemployee, dimstockitem, dimdate,
          present, cache, lock, pc, ret, instance, computes, staleRead,
          everFailed, reads, missing, selected_state, selected_year, filtered_df, summary,
          caller, arg_state, arg_year, result>>

tables == <<factsale, dimcustomer, dimcity, dimemployee, dimstockitem, dimdate>>
loadVars == <<present, cache, lock, computes, staleRead, everFailed, reads,
             missing>>
runVars == <<selected_state, selected_year, filtered_df, summary>>
callVars == <<caller, arg_state, arg_year, result>>

\* ---------------------------------------------------------------- bounds
MaxFact == 2      \* fact rows in the loader specification
MaxViewRows == 2  \* fact rows in the specification of main
MaxRunRows == 3   \* fact rows in the specification of one run of main
MaxRows == 3      \* fact rows in the specification of filter_data

\* ---------------------------------------------------------- missing values
NaN == -1         \* missing numeric value (keys, years, amounts are >= 0)
NA  == "NaN"      \* missing text value

NumericCols == {"CustomerKey", "CityKey", "SalespersonKey", "StockItemKey",
                "InvoiceDateKey", "EmployeeKey", "Date", "CalendarYear",
                "UnitPrice", "TaxAmount"}

NullRow(cols) == [c \in cols |-> IF c \in NumericCols THEN NaN ELSE NA]

\* ------------------------------------------------------------ sample data
DimCustomerBase ==
    << [CustomerKey |-> 1, Customer |-> "Tailspin"],
       [CustomerKey |-> 2, Customer |-> "Wingtip"] >>
DimCityBase ==
    << [CityKey |-> 1, StateProvince |-> "California"],
       [CityKey |-> 2, StateProvince |-> "Alaska"],
       [CityKey |-> 3, StateProvince |-> "Texas"] >>
DimEmployeeBase ==
    << [EmployeeKey |-> 1, Employee |-> "Kayla"] >>
DimStockItemBase ==
    << [StockItemKey |-> 1, Color |-> "Blue", Size |-> "M", Brand |-> "Northwind"],
       [StockItemKey |-> 2, Color |-> "Red",  Size |-> NA,  Brand |-> NA],
       [StockItemKey |-> 3, Color |-> NA,     Size |-> "L", Brand |-> "Acme"] >>
DimDateBase ==
    << [Date |-> 1, CalendarYear |-> 2013],
       [Date |-> 2, CalendarYear |-> 2014] >>

\* A second row with an already used key: the dimension key is not unique.
DupCustomer == [CustomerKey |-> 1, Customer |-> "Wingtip"]
DupDate == [Date |-> 1, CalendarYear |-> 2014]

FactRow(cu, ci, sp, si, dt, up, tx) ==
    [CustomerKey |-> cu, CityKey |-> ci, SalespersonKey |-> sp,
     StockItemKey |-> si, InvoiceDateKey |-> dt, UnitPrice |-> up,
     TaxAmount |-> tx]

\* Keys 1..3 have dimension rows (where the dimension has them); the keys
\* 4, 7, 8 and 9 have none, so the left join fills the columns with nulls.
FactPool ==
    { FactRow(1, 1, 1, 1, 1, 10, 2),
      FactRow(2, 1, 1, 2, 2, 20, 4),
      FactRow(1, 2, 8, 3, 1, 20, 6),
      FactRow(7, 4, 1, 1, 2, 10, 2),
      FactRow(2, 3, 1, 9, 9, 30, 8),
      FactRow(1, 2, 1, 1, 9, 10, 4) }

\* The third row has no state, no year, no size and no brand.
ViewFactPool ==
    { FactRow(1, 1, 1, 1, 1, 10, 2),
      FactRow(2, 2, 8, 3, 2, 20, 6),
      FactRow(7, 4, 8, 9, 9, 30, 8) }

\* Prices 0.10, 1.00, 0.30 and 2.00; the second item has no size or brand,
\* the fourth row no state and no year.
RunFactPool ==
    { FactRow(1, 1, 1, 1, 1, 10, 2),
      FactRow(2, 1, 1, 2, 2, 100, 4),
      FactRow(1, 2, 8, 3, 1, 30, 6),
      FactRow(7, 4, 8, 3, 9, 200, 8) }

LoadFactPool ==
    { FactRow(1, 1, 1, 1, 1, 10, 2),
      FactRow(7, 4, 8, 9, 9, 10, 2),
      FactRow(2, 3, 1, 2, 9, 30, 8) }

SeqsUpTo(S, n) == UNION { [1..k -> S] : k \in 0..n }

FactColumns == {"CustomerKey", "CityKey", "SalespersonKey", "StockItemKey",
                "InvoiceDateKey", "UnitPrice", "TaxAmount"}

\* --------------------------------------------------------------- pd.merge
RECURSIVE Flatten(_)
Flatten(ss) == IF ss = <<>> THEN <<>> ELSE Head(ss) \o Flatten(Tail(ss))

\* how='inner': a left row without a match is dropped.
MergeInner(left, right, left_on, right_on, rcols) ==
    Flatten([i \in 1..Len(left) |->
        LET m == SelectSeq(right, LAMBDA r : r[right_on] = left[i][left_on])
        IN  [j \in 1..Len(m) |-> left[i] @@ m[j]]])

\* DataFrame.merge(right, how='left'): the left rows in their order, each
\* once per matching right row, or once with nulls when nothing matches.
Merge(left, right, left_on, right_on, rcols) ==
    Flatten([i \in 1..Len(left) |->
        LET m == SelectSeq(right, LAMBDA r : r[right_on] = left[i][left_on])
        IN  IF m = <<>>
            THEN << left[i] @@ NullRow(rcols) >>
            ELSE [j \in 1..Len(m) |-> left[i] @@ m[j]]])

CustomerCols  == {"CustomerKey", "Customer"}
CityCols      == {"CityKey", "StateProvince"}
EmployeeCols  == {"EmployeeKey", "Employee"}
StockItemCols == {"StockItemKey", "Color", "Size", "Brand"}
DateCols      == {"Date", "CalendarYear"}

merged_customer(f, cu) == Merge(f, cu, "CustomerKey", "CustomerKey", CustomerCols)
merged_city(f, cu, ci) ==
    Merge(merged_customer(f, cu), ci, "CityKey", "CityKey", CityCols)
merged_employee(f, cu, ci, em) ==
    Merge(merged_city(f, cu, ci), em, "SalespersonKey", "EmployeeKey", EmployeeCols)
merged_stock(f, cu, ci, em, si) ==
    Merge(merged_employee(f, cu, ci, em), si, "StockItemKey", "StockItemKey",
          StockItemCols)
merged_df(f, cu, ci, em, si, dt) ==
    Merge(merged_stock(f, cu, ci, em, si), dt, "InvoiceDateKey", "Date", DateCols)

\* ------------------------------------------------------------- load_data
FileNames == {"FactSale.csv", "DimCostumer.csv", "DimCity.csv", "DimDate.csv",
              "DimEmployee.csv", "DimStockItem.csv"}

\* The order in which load_data reads them (lines 29-34).
ReadOrder == <<"FactSale.csv", "DimCostumer.csv", "DimCity.csv", "DimDate.csv",
               "DimEmployee.csv", "DimStockItem.csv">>

Outcome(r, v) == [raised |-> r, value |-> v]

\* A loader that returns what it could read instead of raising.
load_data_partial(files, f, cu, ci, em, si, dt) ==
    IF FileNames \subseteq files
    THEN Outcome("", merged_df(f, cu, ci, em, si, dt))
    ELSE Outcome("", IF "FactSale.csv" \in files THEN f ELSE <<>>)

\* Body of load_data, given the files its reads found: pd.read_csv raises
\* FileNotFoundError for the first file it does not find; the handler
\* reports it and re-raises.
load_data(files, f, cu, ci, em, si, dt) ==
    IF FileNames \subseteq files
    THEN Outcome("", merged_df(f, cu, ci, em, si, dt))
    ELSE Outcome("FileNotFoundError", <<>>)

\* ------------------------------------------------------- @st.cache_data
Sessions  == {"s1", "s2"}
NoSession == "none"
EmptyCache == [set |-> FALSE, value |-> <<>>]

\* A cache whose lookups always miss.
read_result_miss(c) == EmptyCache

\* Cache lookup: the stored entry, if there is one.
read_result(c) == c

NoRet == Outcome("", <<>>)

\* Every call of the cached function hands out an object of its own: the
\* value load_data just returned, or a copy unpickled from the cache entry.
\* Objects are told apart by a number no df in use has.
InUse == {instance[s] : s \in Sessions}

NewObject(held) ==
    CHOOSE i \in 1..Cardinality(Sessions) :
        i \notin held /\ \A j \in 1..(i - 1) : j \in held

\* ------------------------------------------------ Python values (year arg)
\* selected_year is 'Todos'/'All' (str), an int taken from the year list, or
\* whatever a direct caller of filter_data passes.  A str is kept as the
\* sequence of its Unicode code points so that int() can be computed on it.
PyStr(chars) == [kind |-> "str", s |-> chars, n |-> 0]
PyInt(i)     == [kind |-> "int", s |-> <<>>, n |-> i]
PyNone       == [kind |-> "NoneType", s |-> <<>>, n |-> 0]

All_y   == PyStr(<<65, 108, 108>>)               \* 'All'
Todos_y == PyStr(<<84, 111, 100, 111, 115>>)     \* 'Todos'

\* The characters int() strips from both ends of a str: \t \n \v \f \r,
\* blank, and the Unicode spaces (NEL, NBSP, U+1680, U+2000..U+200A,
\* U+2028, U+2029, U+202F, U+205F, U+3000).
Whitespace == (9..13) \cup {32, 133, 160, 5760} \cup (8192..8202)
              \cup {8232, 8233, 8239, 8287, 12288}

\* First code point of each run of Unicode decimal digits (category Nd,
\* Unicode 15); every run holds the digits 0..9 in order.  The run at
\* 120782 (mathematical digits) holds five such series.
DigitRuns ==
    { 48, 1632, 1776, 1984, 2406, 2534, 2662, 2790, 2918, 3046, 3174, 3302,
      3430, 3558, 3664, 3792, 3872, 4160, 4240, 6112, 6160, 6470, 6608, 6784,
      6800, 6992, 7088, 7232, 7248, 42528, 43216, 43264, 43472, 43504, 43600,
      44016, 65296, 66720, 68912, 69734, 69872, 69942, 70096, 70384, 70736,
      70864, 71248, 71360, 71472, 71904, 72016, 72784, 73040, 73120, 92768,
      92864, 93008, 120782, 120792, 120802, 120812, 120822, 123200, 123632,
      125264, 130032 }
IsDigit(c) == \E d \in DigitRuns : d <= c /\ c <= d + 9
DigitVal(c) == LET d == CHOOSE d \in DigitRuns : d <= c /\ c <= d + 9 IN c - d

Underscore == 95
Plus  == 43
Minus == 45

lstrip(cs) ==
    IF \A i \in 1..Len(cs) : cs[i] \in Whitespace THEN <<>>
    ELSE SubSeq(cs, CHOOSE i \in 1..Len(cs) :
                       /\ cs[i] \notin Whitespace
                       /\ \A j \in 1..(i - 1) : cs[j] \in Whitespace,
                Len(cs))
rstrip(cs) ==
    IF \A i \in 1..Len(cs) : cs[i] \in Whitespace THEN <<>>
    ELSE SubSeq(cs, 1, CHOOSE i \in 1..Len(cs) :
                          /\ cs[i] \notin Whitespace
                          /\ \A j \in (i + 1)..Len(cs) : cs[j] \in Whitespace)

\* A base-10 literal: digits, with single underscores allowed between digits.
IsLiteral(cs) ==
    /\ cs # <<>>
    /\ \A i \in 1..Len(cs) : IsDigit(cs[i]) \/ cs[i] = Underscore
    /\ IsDigit(cs[1]) /\ IsDigit(cs[Len(cs)])
    /\ \A i \in 1..(Len(cs) - 1) : ~(cs[i] = Underscore /\ cs[i + 1] = Underscore)

\* sys.int_info.default_max_str_digits: int() refuses a str of more digits
\* (leading zeros count, underscores, sign and whitespace do not).
MaxStrDigits == 4300

\* The digits of a literal, underscores left out.
DigitsOf(cs) ==
    LET ds == SelectSeq(cs, LAMBDA c : c # Underscore)
    IN  [i \in 1..Len(ds) |-> DigitVal(ds[i])]

\* A Python int has no width: its magnitude is kept as its decimal digits
\* without leading zeros (0 is <<>>).
Magnitude(ds) ==
    IF \A i \in 1..Len(ds) : ds[i] = 0 THEN <<>>
    ELSE SubSeq(ds, CHOOSE i \in 1..Len(ds) :
                       ds[i] # 0 /\ \A j \in 1..(i - 1) : ds[j] = 0,
                Len(ds))

\* The decimal digits of n >= 0 (a number of the model, below 2^31).
DecimalDigits(n) ==
    LET L == IF n >= 10 ^ 9 THEN 10
             ELSE CHOOSE k \in 0..9 : n < 10 ^ k /\ (k = 0 \/ 10 ^ (k - 1) <= n)
    IN  [i \in 1..L |-> (n \div (10 ^ (L - i))) % 10]

Converted(e, neg, mag) == [raised |-> e, neg |-> neg, mag |-> mag]

\* int(x): an int is itself; a str is stripped of whitespace, may carry one
\* sign, and must then be a base-10 literal of at most MaxStrDigits digits,
\* else ValueError; None gives TypeError.
int(x) ==
    CASE x.kind = "int" ->
           Converted("", x.n < 0, DecimalDigits(IF x.n < 0 THEN 0 - x.n ELSE x.n))
      [] x.kind = "NoneType" -> Converted("TypeError", FALSE, <<>>)
      [] x.kind = "str" ->
           LET t    == rstrip(lstrip(x.s))
               sgn  == t # <<>> /\ Head(t) \in {Plus, Minus}
               body == IF sgn THEN Tail(t) ELSE t
           IN  IF IsLiteral(body) /\ Len(DigitsOf(body)) <= MaxStrDigits
               THEN LET mag == Magnitude(DigitsOf(body))
                    IN  Converted("", sgn /\ Head(t) = Minus /\ mag # <<>>, mag)
               ELSE Converted("ValueError", FALSE, <<>>)

\* ------------------------------------------------------------ filter_data
\* Series == value: a missing value compares unequal to everything.
eq_text(v, x) == v # NA /\ v = x

\* Series == int: a column value v (a number of the model, v >= 0) against
\* the int y.
same_number(v, y) == ~y.neg /\ DecimalDigits(v) = y.mag

\* A mask that also keeps the rows whose value is missing.
eq_keepna_num(v, y) == v = NaN \/ same_number(v, y)

\* A missing value equals nothing.
eq_num(v, y) == v # NaN /\ same_number(v, y)

\* selected_year != 'All' on Python values of any type.
py_ne(x, y) == x.kind # y.kind \/ x.s # y.s \/ x.n # y.n

\* The year mask applied to df instead of filtered_df.
filter_data_year_on_df(df, state, year) ==
    LET by_state == IF state # "All"
                    THEN SelectSeq(df, LAMBDA r : eq_text(r.StateProvince, state))
                    ELSE df
    IN  IF py_ne(year, All_y)
        THEN LET y == int(year)
             IN  IF y.raised # "" THEN Outcome(y.raised, <<>>)
                 ELSE Outcome("", SelectSeq(df,
                          LAMBDA r : eq_num(r.CalendarYear, y)))
        ELSE Outcome("", by_state)

\* A failed coercion swallowed: the rows filtered so far are returned.
filter_data_fallback(df, state, year) ==
    LET by_state == IF state # "All"
                    THEN SelectSeq(df, LAMBDA r : eq_text(r.StateProvince, state))
                    ELSE df
    IN  IF py_ne(year, All_y)
        THEN LET y == int(year)
             IN  IF y.raised # "" THEN Outcome("", by_state)
                 ELSE Outcome("", SelectSeq(by_state,
                          LAMBDA r : eq_num(r.CalendarYear, y)))
        ELSE Outcome("", by_state)

\* Only a state other than 'All' leaves the copy untouched.
filter_data_swapped(df, state, year) ==
    LET by_state == IF state = "All"
                    THEN SelectSeq(df, LAMBDA r : eq_text(r.StateProvince, state))
                    ELSE df
    IN  IF py_ne(year, All_y)
        THEN LET y == int(year)
             IN  IF y.raised # "" THEN Outcome(y.raised, <<>>)
                 ELSE Outcome("", SelectSeq(by_state,
                          LAMBDA r : eq_num(r.CalendarYear, y)))
        ELSE Outcome("", by_state)

\* filter_data(df, selected_state, selected_year): a copy of df, narrowed by
\* the state mask and then by the year mask; int(selected_year) may raise,
\* and then nothing is returned.
filter_data(df, state, year) ==
    LET by_state == IF state # "All"
                    THEN SelectSeq(df, LAMBDA r : eq_text(r.StateProvince, state))
                    ELSE df
    IN  IF py_ne(year, All_y)
        THEN LET y == int(year)
             IN  IF y.raised # "" THEN Outcome(y.raised, <<>>)
                 ELSE Outcome("", SelectSeq(by_state,
                          LAMBDA r : eq_num(r.CalendarYear, y)))
        ELSE Outcome("", by_state)

\* -------------------------------------------------- aggregation primitives
Col(rows, c) == [i \in 1..Len(rows) |-> rows[i][c]]
Range(q) == { q[i] : i \in 1..Len(q) }

\* Python's order on the text values that occur as group keys or options.
StrOrder == << "Acme", "Alaska", "California", "L", "M", "Northwind",
               "Sin Marca", "Sin Talla", "Texas" >>
StrRank(x) == CHOOSE i \in 1..Len(StrOrder) : StrOrder[i] = x
str_lt(a, b) == StrRank(a) < StrRank(b)
num_lt(a, b) == a < b

\* sorted(...) of a collection of distinct text values / of distinct ints
RECURSIVE sorted_text(_)
sorted_text(S) ==
    IF S = {} THEN <<>>
    ELSE LET m == CHOOSE x \in S : \A y \in S \ {x} : str_lt(x, y)
         IN  <<m>> \o sorted_text(S \ {m})
RECURSIVE sorted_num(_)
sorted_num(S) ==
    IF S = {} THEN <<>>
    ELSE LET m == CHOOSE x \in S : \A y \in S \ {x} : num_lt(x, y)
         IN  <<m>> \o sorted_num(S \ {m})

RECURSIVE first_seen(_)
first_seen(ks) ==
    IF ks = <<>> THEN <<>>
    ELSE <<Head(ks)>> \o first_seen(SelectSeq(Tail(ks), LAMBDA k : k # Head(ks)))

count(vs) == Len(SelectSeq(vs, LAMBDA v : v # NaN))

\* ---- binary64 arithmetic.  A float is [s |-> sign, m |-> significand,
\* e |-> exponent of the significand's last bit]; a significand is a
\* sequence of 53 bits, most significant (a 1) first; 0.0 has none.
Mantissa == 53

Zeros(k) == [i \in 1..k |-> 0]

Zero == [s |-> 0, m |-> <<>>, e |-> 0]

\* The binary digits of n (0 <= n < 2^30), without leading zeros.
BitsOfInt(n) ==
    LET L == CHOOSE k \in 0..30 : n < 2 ^ k /\ (k = 0 \/ 2 ^ (k - 1) <= n)
    IN  [i \in 1..L |-> (n \div (2 ^ (L - i))) % 2]

\* The number the bits lo..hi of b stand for, by halves.
RECURSIVE BitsValue(_, _, _)
BitsValue(b, lo, hi) ==
    IF lo > hi THEN 0
    ELSE IF lo = hi THEN b[lo]
    ELSE LET mid == (lo + hi) \div 2
         IN  BitsValue(b, lo, mid) * 2 ^ (hi - mid) + BitsValue(b, mid + 1, hi)

IntOfBits(b) == BitsValue(b, 1, Len(b))

\* b + 1
Inc(b) ==
    IF \A i \in 1..Len(b) : b[i] = 1 THEN <<1>> \o Zeros(Len(b))
    ELSE LET p == CHOOSE i \in 1..Len(b) :
                      b[i] = 0 /\ \A j \in (i + 1)..Len(b) : b[j] = 1
         IN  SubSeq(b, 1, p - 1) \o <<1>> \o Zeros(Len(b) - p)

\* Bit sequences are added, subtracted and compared in limbs of 24 bits.
Limb == 24

\* The limbs of b, whose length is a multiple of 24, most significant first.
Limbs(b) == [j \in 1..(Len(b) \div Limb) |-> BitsValue(b, Limb * (j - 1) + 1, Limb * j)]

BitsOfLimb(v) == [i \in 1..Limb |-> (v \div (2 ^ (Limb - i))) % 2]

\* b with leading zeros, to k limbs.
Padded(b, k) == Zeros(Limb * k - Len(b)) \o b

\* The limbs 1..j of A + B, given the carry into limb j.
RECURSIVE AddCarry(_, _, _, _)
AddCarry(A, B, j, carry) ==
    IF j = 0 THEN (IF carry = 1 THEN <<1>> ELSE <<>>)
    ELSE LET t == A[j] + B[j] + carry
         IN  AddCarry(A, B, j - 1, t \div (2 ^ Limb)) \o BitsOfLimb(t % (2 ^ Limb))

\* a + b (the result may have leading zeros)
AddBits(a, b) ==
    LET n == IF Len(a) > Len(b) THEN Len(a) ELSE Len(b)
        k == (n + Limb - 1) \div Limb
    IN  AddCarry(Limbs(Padded(a, k)), Limbs(Padded(b, k)), k, 0)

\* A >= B for limbs j.., the limbs before j being equal.
RECURSIVE GreaterEqFrom(_, _, _)
GreaterEqFrom(A, B, j) ==
    IF j > Len(A) THEN TRUE
    ELSE IF A[j] # B[j] THEN A[j] > B[j]
    ELSE GreaterEqFrom(A, B, j + 1)

\* a >= b for bit sequences of equal length.
GreaterEq(a, b) ==
    LET k == (Len(a) + Limb - 1) \div Limb
    IN  GreaterEqFrom(Limbs(Padded(a, k)), Limbs(Padded(b, k)), 1)

\* The limbs 1..j of A - B, given the borrow from limb j.
RECURSIVE SubBorrow(_, _, _, _)
SubBorrow(A, B, j, borrow) ==
    IF j = 0 THEN <<>>
    ELSE LET t == A[j] - B[j] - borrow
         IN  SubBorrow(A, B, j - 1, IF t < 0 THEN 1 ELSE 0)
                 \o BitsOfLimb(IF t < 0 THEN t + 2 ^ Limb ELSE t)

\* a - b for bit sequences of equal length with a >= b (the result may have
\* leading zeros)
SubBits(a, b) ==
    LET k == (Len(a) + Limb - 1) \div Limb
    IN  SubBorrow(Limbs(Padded(a, k)), Limbs(Padded(b, k)), k, 0)

\* b without its leading zeros.
StripZeros(b) ==
    IF \A i \in 1..Len(b) : b[i] = 0 THEN <<>>
    ELSE SubSeq(b, CHOOSE i \in 1..Len(b) :
                      b[i] = 1 /\ \A j \in 1..(i - 1) : b[j] = 0,
                Len(b))

\* Round a significand of more than 53 bits (sticky: non-zero bits beyond
\* it) to 53 bits, to nearest, ties to even; e is the exponent of its last bit.
RoundBits(bits, sticky, e) ==
    LET d    == Len(bits) - Mantissa
        top  == SubSeq(bits, 1, Mantissa)
        rest == sticky \/ \E i \in (Mantissa + 2)..Len(bits) : bits[i] = 1
        up   == bits[Mantissa + 1] = 1 /\ (rest \/ top[Mantissa] = 1)
        r    == IF up THEN Inc(top) ELSE top
    IN  IF Len(r) > Mantissa
        THEN [m |-> SubSeq(r, 1, Mantissa), e |-> e + d + 1]
        ELSE [m |-> r, e |-> e + d]

\* The float nearest to (-1)^sg * bits * 2^e (sticky as above; a value with
\* sticky bits has more than 53 significant bits).
Normal(sg, bits, sticky, e) ==
    LET b == StripZeros(bits)
        r == RoundBits(b, sticky, e)
    IN  IF b = <<>> THEN Zero
        ELSE IF Len(b) <= Mantissa
        THEN [s |-> sg, m |-> b \o Zeros(Mantissa - Len(b)),
              e |-> e - (Mantissa - Len(b))]
        ELSE [s |-> sg, m |-> r.m, e |-> r.e]

\* float(n) for an integer 0 <= n < 2^30
FloatOfInt(n) == Normal(0, BitsOfInt(n), FALSE, 0)

fneg(x) == IF x.m = <<>> THEN x ELSE [x EXCEPT !.s = 1 - x.s]

\* x + y in binary64: the exact sum, rounded.
fadd(x, y) ==
    IF x.m = <<>> THEN y
    ELSE IF y.m = <<>> THEN x
    ELSE LET lo == IF x.e < y.e THEN x.e ELSE y.e
             a0 == x.m \o Zeros(x.e - lo)
             b0 == y.m \o Zeros(y.e - lo)
             k  == IF Len(a0) > Len(b0) THEN Len(a0) ELSE Len(b0)
             a  == Zeros(k - Len(a0)) \o a0
             b  == Zeros(k - Len(b0)) \o b0
         IN  IF x.s = y.s THEN Normal(x.s, AddBits(a, b), FALSE, lo)
             ELSE IF a = b THEN Zero
             ELSE IF GreaterEq(a, b) THEN Normal(x.s, SubBits(a, b), FALSE, lo)
             ELSE Normal(y.s, SubBits(b, a), FALSE, lo)

fsub(x, y) == fadd(x, fneg(y))

\* Long division of the bit sequence d (a multiple of 8 bits) by the
\* integer 0 < den < 2^23, eight bits at a time from byte c on: rem is the
\* remainder of the bytes before c.  The quotient has the length of d.
RECURSIVE DivBytes(_, _, _, _)
DivBytes(d, den, c, rem) ==
    IF 8 * c > Len(d) THEN [bits |-> <<>>, sticky |-> rem # 0]
    ELSE LET t == rem * 256 + BitsValue(d, 8 * c - 7, 8 * c)
             r == DivBytes(d, den, c + 1, t % den)
         IN  [bits   |-> [i \in 1..8 |-> ((t \div den) \div (2 ^ (8 - i))) % 2]
                             \o r.bits,
              sticky |-> r.sticky]

DivBits(d, den) == DivBytes(d, den, 1, 0)

\* x / den in binary64 for an integer 0 < den < 2^23: the quotient to 27
\* more bits than x has, and whether a remainder is left, rounded.
fdiv(x, den) ==
    IF x.m = <<>> THEN Zero
    ELSE LET r == DivBits(Zeros(8 - ((Mantissa + 27) % 8)) \o x.m \o Zeros(27), den)
         IN  Normal(x.s, r.bits, r.sticky, x.e - 27)

\* x * 100 in binary64 (100 = 64 + 32 + 4).
fmul100(x) ==
    IF x.m = <<>> THEN Zero
    ELSE Normal(x.s, AddBits(AddBits(x.m \o Zeros(6), x.m \o Zeros(5)),
                             x.m \o Zeros(2)), FALSE, x.e)

\* rint(y): the nearest integer, ties to even (0 <= y < 2^31).
rint(y) ==
    LET f    == 0 - y.e
        ip   == SubSeq(y.m, 1, Mantissa - f)
        rest == \E i \in (Mantissa - f + 2)..Mantissa : y.m[i] = 1
        up   == y.m[Mantissa - f + 1] = 1
                /\ (rest \/ (ip # <<>> /\ ip[Len(ip)] = 1))
    IN  IF y.m = <<>> \/ f > Mantissa THEN 0
        ELSE IF f <= 0 THEN IntOfBits(y.m \o Zeros(0 - f))
        ELSE IntOfBits(ip) + (IF up THEN 1 ELSE 0)

\* round(x, 2) of the numpy float x, in hundredths: numpy computes
\* rint(x * 100) / 100 in binary64.
round2(x) == rint(fmul100(x))

\* The float pd.read_csv makes of a price written with two decimals (c is
\* the price in hundredths): the float nearest to c / 100.
PriceOf(c) == fdiv(FloatOfInt(c), 100)

\* pd.read_csv converts the column once; the prices of the sample data.
Prices ==
    [c \in {r.UnitPrice : r \in FactPool \cup ViewFactPool \cup RunFactPool
                                \cup LoadFactPool} |-> PriceOf(c)]

Price(c) == IF c \in DOMAIN Prices THEN Prices[c] ELSE PriceOf(c)

\* res += a[i], from left to right.
RECURSIVE seq_sum(_, _)
seq_sum(res, a) ==
    IF a = <<>> THEN res ELSE seq_sum(fadd(res, Head(a)), Tail(a))

\* numpy's sum of a float array (pairwise summation): up to 7 elements are
\* added from left to right; up to 128 are added in eight interleaved
\* lanes, the lanes pairwise and the leftover from left to right; a longer
\* array is split in two.
RECURSIVE pairwise_sum(_)
pairwise_sum(a) ==
    LET n    == Len(a)
        full == n - (n % 8)
        lane(k) == seq_sum(a[k], [j \in 1..(full \div 8 - 1) |-> a[8 * j + k]])
        half == (n \div 2) - ((n \div 2) % 8)
    IN  IF n < 8 THEN seq_sum(Zero, a)
        ELSE IF n <= 128
        THEN seq_sum(fadd(fadd(fadd(lane(1), lane(2)), fadd(lane(3), lane(4))),
                          fadd(fadd(lane(5), lane(6)), fadd(lane(7), lane(8)))),
                     SubSeq(a, full + 1, n))
        ELSE fadd(pairwise_sum(SubSeq(a, 1, half)),
                  pairwise_sum(SubSeq(a, half + 1, n)))

\* Series.sum() of a column of prices: missing values count as 0.0, the
\* sum of no values is 0.0.
sum(vs) ==
    pairwise_sum([i \in 1..Len(vs) |-> IF vs[i] = NaN THEN Zero ELSE Price(vs[i])])

\* The sum of one group in groupby(...).sum(): Kahan summation, the rows of
\* the group in row order.
RECURSIVE kahan_sum(_, _, _)
kahan_sum(sumx, compensation, a) ==
    IF a = <<>> THEN sumx
    ELSE LET y == fsub(Head(a), compensation)
             t == fadd(sumx, y)
         IN  kahan_sum(t, fsub(fsub(t, sumx), y), Tail(a))

group_sum(vs) ==
    LET xs == SelectSeq(vs, LAMBDA v : v # NaN)
    IN  kahan_sum(Zero, Zero, [i \in 1..Len(xs) |-> Price(xs[i])])

Number(h) == [nan |-> FALSE, hundredths |-> h]
nan == [nan |-> TRUE, hundredths |-> 0]

\* A mean that reports 0 for an empty column.
mean_zero(vs) == IF count(vs) = 0 THEN Number(0)
                 ELSE Number(round2(fdiv(sum(vs), count(vs))))

\* round(Series.mean(), 2): the mean is sum / count of the values present;
\* the mean of no values is NaN, and stays NaN.
mean(vs) == IF count(vs) = 0 THEN nan
            ELSE Number(round2(fdiv(sum(vs), count(vs))))

\* Series.median(), in hundredths: middle value, or mean of the two middle.
median(vs) ==
    LET xs == SelectSeq(vs, LAMBDA v : v # NaN)
        n  == Len(xs)
        \* k-th smallest: the value with fewer than k smaller and at least k
        \* smaller-or-equal entries
        kth(k) == CHOOSE v \in Range(xs) :
                    /\ Cardinality({i \in 1..n : xs[i] < v}) < k
                    /\ Cardinality({i \in 1..n : xs[i] <= v}) >= k
    IN  IF n = 0 THEN nan
        ELSE IF n % 2 = 1 THEN Number(100 * kth((n + 1) \div 2))
        ELSE Number(50 * (kth(n \div 2) + kth(n \div 2 + 1)))

\* len(Series.dropna().unique())
nunique(vs) == Cardinality(Range(vs) \ {NA})

\* Series.fillna(placeholder), here left out.
fillna_skipped(ks, placeholder) == ks

\* Series.fillna(placeholder)
fillna(ks, placeholder) ==
    [i \in 1..Len(ks) |-> IF ks[i] = NA THEN placeholder ELSE ks[i]]

\* groupby(..., sort=False): groups in order of first appearance.
group_keys_unsorted(ks) == first_seen(SelectSeq(ks, LAMBDA k : k # NA))

\* Group keys of DataFrame.groupby(key): rows with a missing key are dropped
\* (dropna=True) and the groups are sorted by key (sort=True).
group_keys(ks) == sorted_text(Range(ks) \ {NA})

GroupValues(ks, vs, k) ==
    LET idx == SelectSeq([i \in 1..Len(ks) |-> i], LAMBDA i : ks[i] = k)
    IN  [j \in 1..Len(idx) |-> vs[idx[j]]]

groupby_sum(ks, vs) ==
    LET g == group_keys(ks)
    IN  [j \in 1..Len(g) |-> [key |-> g[j], value |-> group_sum(GroupValues(ks, vs, g[j]))]]

groupby_median(ks, vs) ==
    LET g == group_keys(ks)
    IN  [j \in 1..Len(g) |->
            [key |-> g[j], value |-> median(GroupValues(ks, vs, g[j]))]]

state_abbreviations ==
    [s \in {"Alaska", "California", "Hawaii", "Nevada", "Oregon", "Washington"} |->
        CASE s = "Alaska" -> "AK" [] s = "California" -> "CA"
          [] s = "Hawaii" -> "HI" [] s = "Nevada" -> "NV"
          [] s = "Oregon" -> "OR" [] s = "Washington" -> "WA"]

\* Series.map(dict): a value without an entry maps to a missing value.
map_abbrev(s) == IF s \in DOMAIN state_abbreviations
                 THEN state_abbreviations[s] ELSE NA

\* The metrics and chart inputs main computes from filtered_df.
unique_colors(rows)  == nunique(Col(rows, "Color"))
avg_unit_price(rows) == mean(Col(rows, "UnitPrice"))
unique_sizes(rows)   == nunique(Col(rows, "Size"))
total_revenue(rows)  == sum(Col(rows, "UnitPrice"))
state_revenue(rows) ==
    LET g == groupby_sum(Col(rows, "StateProvince"), Col(rows, "UnitPrice"))
    IN  [j \in 1..Len(g) |-> [key |-> g[j].key, value |-> g[j].value,
                              abbrev |-> map_abbrev(g[j].key)]]
size_sales(rows) ==
    groupby_sum(fillna(Col(rows, "Size"), "Sin Talla"), Col(rows, "UnitPrice"))
state_tax(rows) ==
    groupby_median(Col(rows, "StateProvince"), Col(rows, "TaxAmount"))
brand_sales(rows) ==
    groupby_sum(fillna(Col(rows, "Brand"), "Sin Marca"), Col(rows, "UnitPrice"))

\* Nothing computed yet.
NoSummary ==
    [ unique_colors |-> 0, avg_unit_price |-> nan, unique_sizes |-> 0,
      total_revenue |-> Zero, state_revenue |-> <<>>, size_sales |-> <<>>,
      state_tax |-> <<>>, brand_sales |-> <<>> ]

\* Options of the two selectboxes (lines 79-80).
states(df) == <<"Todos">> \o sorted_text(Range(Col(df, "StateProvince")) \ {NA})
years(df) ==
    LET ys == sorted_num(Range(Col(df, "CalendarYear")) \ {NaN})
    IN  <<Todos_y>> \o [i \in 1..Len(ys) |-> PyInt(ys[i])]

\* ================================================================== steps
\* Sessions run main concurrently (one script thread per session).  pc[s]
\* names the last step of main that session s has completed.
NoSelection == ""

RunIdle ==
    /\ selected_state = [s \in Sessions |-> NoSelection]
    /\ selected_year = [s \in Sessions |-> PyNone]
    /\ filtered_df = [s \in Sessions |-> NoRet]
    /\ summary = [s \in Sessions |-> NoSummary]

CallIdle ==
    /\ caller = "none"
    /\ arg_state = "All" /\ arg_year = All_y
    /\ result = NoRet

LoadIdle ==
    /\ present = FileNames
    /\ cache = EmptyCache
    /\ lock = NoSession
    /\ pc = [s \in Sessions |-> "idle"]
    /\ ret = [s \in Sessions |-> NoRet]
    /\ instance = [s \in Sessions |-> 0]
    /\ computes = 0
    /\ staleRead = FALSE
    /\ everFailed = FALSE
    /\ reads = [s \in Sessions |-> 0]
    /\ missing = {}

\* A file disappears from / reappears in Data/ (at most one is absent).
RemoveFile(f) ==
    /\ present = FileNames /\ f \in FileNames
    /\ present' = present \ {f}
    /\ UNCHANGED <<tables, cache, lock, pc, ret, instance, computes, staleRead, everFailed,
                   reads, missing, runVars, callVars>>

RestoreFile(f) ==
    /\ f \in FileNames \ present
    /\ present' = present \cup {f}
    /\ missing' = missing \ {f}
    /\ UNCHANGED <<tables, cache, lock, pc, ret, instance, computes, staleRead, everFailed,
                   reads, runVars, callVars>>

\* Streamlit's "Clear cache" command (app menu) empties the cache of
\* load_data at any moment; nothing in the script does.
ClearCache ==
    /\ cache.set
    /\ cache' = EmptyCache
    /\ UNCHANGED <<tables, present, lock, pc, ret, instance, computes, staleRead,
                   everFailed, reads, missing, runVars, callVars>>

\* df = load_data(): the wrapper looks the entry up without the lock.
CallLoad(s) ==
    /\ pc[s] = "idle"
    /\ LET c == read_result(cache)
       IN  IF c.set
           THEN /\ pc' = [pc EXCEPT ![s] = "loaded"]
                /\ ret' = [ret EXCEPT ![s] = Outcome("", c.value)]
                /\ instance' = [instance EXCEPT ![s] = NewObject(InUse)]
           ELSE /\ pc' = [pc EXCEPT ![s] = "miss"]
                /\ UNCHANGED <<ret, instance>>
    /\ UNCHANGED <<tables, loadVars, runVars, callVars>>

\* Cache miss: take the compute lock.
AcquireLock(s) ==
    /\ pc[s] = "miss" /\ lock = NoSession
    /\ lock' = s
    /\ pc' = [pc EXCEPT ![s] = "locked"]
    /\ UNCHANGED <<tables, present, cache, ret, instance, computes, staleRead, everFailed,
                   reads, missing, runVars, callVars>>

\* Under the lock: look up again; on a hit return the entry, on a miss
\* start load_data's body.
HandleMiss(s) ==
    /\ pc[s] = "locked" /\ lock = s
    /\ LET c == read_result(cache)
       IN  IF c.set
           THEN /\ pc' = [pc EXCEPT ![s] = "loaded"]
                /\ ret' = [ret EXCEPT ![s] = Outcome("", c.value)]
                /\ instance' = [instance EXCEPT ![s] = NewObject(InUse)]
                /\ lock' = NoSession
                /\ UNCHANGED <<staleRead, missing>>
           ELSE /\ pc' = [pc EXCEPT ![s] = "reading"]
                /\ staleRead' = (staleRead \/ cache.set)
                /\ missing' = FileNames \ present
                /\ UNCHANGED <<ret, instance, lock>>
    /\ UNCHANGED <<tables, present, cache, computes, everFailed, reads, runVars,
                   callVars>>

\* The call of load_data's body ends with outcome r: the wrapper stores a
\* returned value (an exception stores nothing) and releases the lock.
Finish(s, r) ==
    /\ ret' = [ret EXCEPT ![s] = r]
    /\ instance' = [instance EXCEPT ![s] = IF r.raised # "" THEN 0
                                            ELSE NewObject(InUse)]
    /\ lock' = NoSession
    /\ reads' = [reads EXCEPT ![s] = 0]
    /\ missing' = {}
    /\ IF r.raised # ""
       THEN /\ pc' = [pc EXCEPT ![s] = "failed"]
            /\ everFailed' = TRUE
            /\ UNCHANGED <<cache, computes>>
       ELSE /\ pc' = [pc EXCEPT ![s] = "loaded"]
            /\ cache' = [set |-> TRUE, value |-> r.value]
            /\ computes' = IF computes < 2 THEN computes + 1 ELSE computes
            /\ UNCHANGED everFailed
    /\ UNCHANGED <<tables, present, staleRead, runVars, callVars>>

\* One pd.read_csv of lines 29-34: the next file is read if it is there
\* now; if not, the body ends with what load_data makes of the files found.
read_csv(s) ==
    /\ pc[s] = "reading" /\ reads[s] < Len(ReadOrder)
    /\ IF ReadOrder[reads[s] + 1] \in present
       THEN /\ reads' = [reads EXCEPT ![s] = reads[s] + 1]
            /\ UNCHANGED <<tables, present, cache, lock, pc, ret, instance, computes,
                           staleRead, everFailed, missing, runVars, callVars>>
       ELSE Finish(s, load_data({ReadOrder[i] : i \in 1..reads[s]}, factsale,
                                dimcustomer, dimcity, dimemployee, dimstockitem,
                                dimdate))

\* All six files are read: the five merges and the return (lines 37-43).
ReturnMerged(s) ==
    /\ pc[s] = "reading" /\ reads[s] = Len(ReadOrder)
    /\ Finish(s, load_data({ReadOrder[i] : i \in 1..reads[s]}, factsale,
                           dimcustomer, dimcity, dimemployee, dimstockitem,
                           dimdate))

\* selected_state = st.sidebar.selectbox(..., states)   (lines 76-83)
SelectState(s) ==
    /\ pc[s] = "loaded"
    /\ pc' = [pc EXCEPT ![s] = "state"]
    /\ \E st \in Range(states(ret[s].value)) :
          selected_state' = [selected_state EXCEPT ![s] = st]
    /\ UNCHANGED <<tables, loadVars, ret, instance, selected_year, filtered_df, summary,
                   callVars>>

\* selected_year = st.sidebar.selectbox(..., years)   (line 84)
SelectYear(s) ==
    /\ pc[s] = "state"
    /\ pc' = [pc EXCEPT ![s] = "year"]
    /\ \E yr \in Range(years(ret[s].value)) :
          selected_year' = [selected_year EXCEPT ![s] = yr]
    /\ UNCHANGED <<tables, loadVars, ret, instance, selected_state, filtered_df, summary,
                   callVars>>

\* filtered_df = filter_data(df, ...), 'Todos' passed as 'All'   (lines 87-91)
Filter(s) ==
    /\ pc[s] = "year"
    /\ LET f == filter_data(ret[s].value,
                   IF selected_state[s] # "Todos" THEN selected_state[s] ELSE "All",
                   IF py_ne(selected_year[s], Todos_y) THEN selected_year[s]
                   ELSE All_y)
       IN  /\ filtered_df' = [filtered_df EXCEPT ![s] = f]
           /\ pc' = [pc EXCEPT ![s] = IF f.raised = "" THEN "filtered" ELSE "failed"]
    /\ UNCHANGED <<tables, loadVars, ret, instance, selected_state, selected_year, summary,
                   callVars>>

\* A block of main after the filter computes one value from filtered_df and
\* hands it to st.metric or to a chart.
Render(s, to, field, value) ==
    /\ pc' = [pc EXCEPT ![s] = to]
    /\ summary' = [summary EXCEPT ![s] = [summary[s] EXCEPT ![field] = value]]
    /\ UNCHANGED <<tables, loadVars, ret, instance, selected_state, selected_year,
                   filtered_df, callVars>>

\* col1: st.metric("Colores Unicos", ...)   (lines 94-96)
MetricColors(s) ==
    /\ pc[s] = "filtered"
    /\ Render(s, "col1", "unique_colors", unique_colors(filtered_df[s].value))

\* col2: st.metric("Precio Promedio", ...)   (lines 98-100)
MetricAvgPrice(s) ==
    /\ pc[s] = "col1"
    /\ Render(s, "col2", "avg_unit_price", avg_unit_price(filtered_df[s].value))

\* col3: st.metric("Tallas Unicas", ...)   (lines 102-104)
MetricSizes(s) ==
    /\ pc[s] = "col2"
    /\ Render(s, "col3", "unique_sizes", unique_sizes(filtered_df[s].value))

\* col4: st.metric("Ingresos Totales", ...)   (lines 106-108)
MetricRevenue(s) ==
    /\ pc[s] = "col3"
    /\ Render(s, "col4", "total_revenue", total_revenue(filtered_df[s].value))

\* Choropleth of revenue by state   (lines 113-128)
ChartMap(s) ==
    /\ pc[s] = "col4"
    /\ Render(s, "map", "state_revenue", state_revenue(filtered_df[s].value))

\* Pie of sales by size   (lines 130-137)
ChartSize(s) ==
    /\ pc[s] = "map"
    /\ Render(s, "pie", "size_sales", size_sales(filtered_df[s].value))

\* Bars of the median tax by state   (lines 139-150)
ChartTax(s) ==
    /\ pc[s] = "pie"
    /\ Render(s, "bar", "state_tax", state_tax(filtered_df[s].value))

\* Bars of sales by brand   (lines 152-164)
ChartBrand(s) ==
    /\ pc[s] = "bar"
    /\ Render(s, "done", "brand_sales", brand_sales(filtered_df[s].value))

\* The script run ends: at main's end, at its early return after a failed
\* load, or at any st.* call when the session asks for a rerun.  The locals
\* of the run are gone; the next interaction runs main again.
Rerun(s) ==
    /\ pc[s] \notin {"idle", "miss", "locked", "reading"}
    /\ pc' = [pc EXCEPT ![s] = "idle"]
    /\ ret' = [ret EXCEPT ![s] = NoRet]
    /\ instance' = [instance EXCEPT ![s] = 0]
    /\ selected_state' = [selected_state EXCEPT ![s] = NoSelection]
    /\ selected_year' = [selected_year EXCEPT ![s] = PyNone]
    /\ filtered_df' = [filtered_df EXCEPT ![s] = NoRet]
    /\ summary' = [summary EXCEPT ![s] = NoSummary]
    /\ UNCHANGED <<tables, loadVars, callVars>>

\* ===================================================== loader specification
\* Files come and go and the cache is cleared while the sessions call the
\* cached load_data; dimension tables may hold a key twice.
BaseDimensions ==
    /\ dimcustomer = DimCustomerBase
    /\ dimcity = DimCityBase
    /\ dimemployee = DimEmployeeBase
    /\ dimstockitem = DimStockItemBase
    /\ dimdate = DimDateBase

\* The first and the last dimension merged hold a key twice.
DuplicateDimensions ==
    /\ dimcustomer = Append(DimCustomerBase, DupCustomer)
    /\ dimcity = DimCityBase
    /\ dimemployee = DimEmployeeBase
    /\ dimstockitem = DimStockItemBase
    /\ dimdate = Append(DimDateBase, DupDate)

Init ==
    /\ factsale \in SeqsUpTo(LoadFactPool, MaxFact)
    /\ BaseDimensions \/ DuplicateDimensions
    /\ LoadIdle /\ RunIdle /\ CallIdle

Next ==
    \/ \E f \in FileNames : RemoveFile(f)
    \/ \E f \in FileNames : RestoreFile(f)
    \/ ClearCache
    \/ \E s \in Sessions : CallLoad(s)
    \/ \E s \in Sessions : AcquireLock(s)
    \/ \E s \in Sessions : HandleMiss(s)
    \/ \E s \in Sessions : read_csv(s)
    \/ \E s \in Sessions : ReturnMerged(s)
    \/ \E s \in Sessions : Rerun(s)

Spec == Init /\ [][Next]_vars

\* ======================================================= main, step by step
InitView ==
    /\ factsale \in SeqsUpTo(ViewFactPool, MaxViewRows)
    /\ BaseDimensions
    /\ LoadIdle /\ RunIdle /\ CallIdle

NextView ==
    \/ \E s \in Sessions : CallLoad(s)
    \/ \E s \in Sessions : AcquireLock(s)
    \/ \E s \in Sessions : HandleMiss(s)
    \/ \E s \in Sessions : read_csv(s)
    \/ \E s \in Sessions : ReturnMerged(s)
    \/ \E s \in Sessions : SelectState(s)
    \/ \E s \in Sessions : SelectYear(s)
    \/ \E s \in Sessions : Filter(s)
    \/ \E s \in Sessions : MetricColors(s)
    \/ \E s \in Sessions : MetricAvgPrice(s)
    \/ \E s \in Sessions : MetricSizes(s)
    \/ \E s \in Sessions : MetricRevenue(s)
    \/ \E s \in Sessions : ChartMap(s)
    \/ \E s \in Sessions : ChartSize(s)
    \/ \E s \in Sessions : ChartTax(s)
    \/ \E s \in Sessions : ChartBrand(s)
    \/ \E s \in Sessions : Rerun(s)

SpecView == InitView /\ [][NextView]_vars

\* ====================================================== one run of main
\* One session runs main, over larger tables with prices that are not
\* whole amounts.
Viewers == {"s1"}

InitRun ==
    /\ factsale \in SeqsUpTo(RunFactPool, MaxRunRows)
    /\ BaseDimensions
    /\ LoadIdle /\ RunIdle /\ CallIdle

NextRun ==
    \/ \E s \in Viewers : CallLoad(s)
    \/ \E s \in Viewers : AcquireLock(s)
    \/ \E s \in Viewers : HandleMiss(s)
    \/ \E s \in Viewers : read_csv(s)
    \/ \E s \in Viewers : ReturnMerged(s)
    \/ \E s \in Viewers : SelectState(s)
    \/ \E s \in Viewers : SelectYear(s)
    \/ \E s \in Viewers : Filter(s)
    \/ \E s \in Viewers : MetricColors(s)
    \/ \E s \in Viewers : MetricAvgPrice(s)
    \/ \E s \in Viewers : MetricSizes(s)
    \/ \E s \in Viewers : MetricRevenue(s)
    \/ \E s \in Viewers : ChartMap(s)
    \/ \E s \in Viewers : ChartSize(s)
    \/ \E s \in Viewers : ChartTax(s)
    \/ \E s \in Viewers : ChartBrand(s)
    \/ \E s \in Viewers : Rerun(s)

SpecRun == InitRun /\ [][NextRun]_vars

\* ================================================= filter_data on its own
\* filter_data applied to the join of a fact table with the base dimensions,
\* with arguments of every kind.
StateArgs == {"All", "California", "Alaska", "Texas", "Nevada"}
YearArgs ==
    { All_y, Todos_y, PyNone,
      PyInt(2013), PyInt(2014), PyInt(-1),
      PyStr(<<50, 48, 49, 51>>),                 \* '2013'
      PyStr(<<32, 50, 48, 49, 52>>),             \* ' 2014'
      PyStr(<<9, 50, 95, 48, 49, 51, 10>>),      \* '\t2_013\n'
      PyStr(<<50, 48, 49, 51, 46, 48>>),         \* '2013.0'
      PyStr(<<97, 98, 99>>),                     \* 'abc'
      PyStr(<<>>),                               \* ''
      PyStr([i \in 1..10 |-> 57]),               \* '9999999999'
      PyStr([i \in 1..(MaxStrDigits + 1) |-> 49]) }   \* '1' * 4301

InitFilter ==
    /\ factsale \in SeqsUpTo(FactPool, MaxRows)
    /\ BaseDimensions
    /\ LoadIdle /\ RunIdle /\ CallIdle

call_filter_data ==
    /\ caller = "none"
    /\ \E st \in StateArgs, yr \in YearArgs :
          /\ caller' = "filter_data"
          /\ arg_state' = st
          /\ arg_year' = yr
          /\ result' = filter_data(merged_df(factsale, dimcustomer, dimcity,
                                   dimemployee, dimstockitem, dimdate), st, yr)
    /\ UNCHANGED <<tables, loadVars, pc, ret, instance, runVars>>

\* The call is over; its arguments and result are gone.
EndCall ==
    /\ caller # "none"
    /\ caller' = "none"
    /\ arg_state' = "All" /\ arg_year' = All_y
    /\ result' = NoRet
    /\ UNCHANGED <<tables, loadVars, pc, ret, instance, runVars>>

NextFilter == call_filter_data \/ EndCall

SpecFilter == InitFilter /\ [][NextFilter]_vars

\* ================================================================ properties
UniqueKey(t, k) == \A i, j \in 1..Len(t) : i # j => t[i][k] # t[j][k]

UniqueDimensionKeys ==
    /\ UniqueKey(dimcustomer, "CustomerKey")
    /\ UniqueKey(dimcity, "CityKey")
    /\ UniqueKey(dimemployee, "EmployeeKey")
    /\ UniqueKey(dimstockitem, "StockItemKey")
    /\ UniqueKey(dimdate, "Date")

\* The fact columns of each row, in row order.
FactPart(rows) == [i \in 1..Len(rows) |-> FactRow(rows[i].CustomerKey,
    rows[i].CityKey, rows[i].SalespersonKey, rows[i].StockItemKey,
    rows[i].InvoiceDateKey, rows[i].UnitPrice, rows[i].TaxAmount)]

\* The Integrated View of the tables on disk.
FullView == merged_df(factsale, dimcustomer, dimcity, dimemployee, dimstockitem,
                      dimdate)

\* C1: with unique dimension keys the table load_data returns has exactly the
\* fact table's rows, each once and in order (so the same row count), and so
\* has the result of each of the five successive left joins.
C1_RowCountPreserved ==
    UniqueDimensionKeys =>
        /\ \A s \in Sessions : pc[s] = "loaded" =>
              /\ Len(ret[s].value) = Len(factsale)
              /\ FactPart(ret[s].value) = factsale
        /\ cache.set =>
              /\ Len(merged_customer(factsale, dimcustomer)) = Len(factsale)
              /\ Len(merged_city(factsale, dimcustomer, dimcity)) = Len(factsale)
              /\ Len(merged_employee(factsale, dimcustomer, dimcity, dimemployee))
                     = Len(factsale)
              /\ Len(merged_stock(factsale, dimcustomer, dimcity, dimemployee,
                                  dimstockitem)) = Len(factsale)
              /\ Len(cache.value) = Len(factsale)

\* A loaded view of two fact rows, one matched in every dimension and one
\* matched in none.
C1_Witness ==
    /\ UniqueDimensionKeys
    /\ \E s \in Sessions :
          /\ pc[s] = "loaded"
          /\ Len(ret[s].value) = 2
          /\ \E i, j \in 1..2 :
                /\ ret[s].value[i].StateProvince = NA
                /\ ret[s].value[i].Customer = NA
                /\ ret[s].value[i].Employee = NA
                /\ ret[s].value[i].Color = NA
                /\ ret[s].value[i].CalendarYear = NaN
                /\ ret[s].value[j].StateProvince # NA
                /\ ret[s].value[j].CalendarYear # NaN

\* The next read of session s, if made now, does not find its file.
NextAbsent(s) ==
    /\ pc[s] = "reading" /\ reads[s] < Len(ReadOrder)
    /\ ReadOrder[reads[s] + 1] \notin present

\* Session s takes a step of load_data's body.
BodyStep(s) == pc[s] = "reading" /\ <<pc[s], reads[s]>>' # <<pc[s], reads[s]>>

\* C2: a load_data() call that reads while one of the six files is absent
\* (so every call during which one file is absent all the time) raises
\* FileNotFoundError, returns no rows and leaves the cache empty; a call
\* that finds all six files returns the full Integrated View and caches it,
\* also after earlier failures.
C2_MissingFile ==
    [][ \A s \in Sessions :
          /\ (BodyStep(s) /\ NextAbsent(s)) =>
                /\ pc'[s] = "failed"
                /\ ret'[s] = Outcome("FileNotFoundError", <<>>)
                /\ cache' = EmptyCache
          /\ (BodyStep(s) /\ missing # {} /\ pc'[s] # "reading") =>
                pc'[s] = "failed"
          /\ (BodyStep(s) /\ ~NextAbsent(s)) =>
                \/ pc'[s] = "reading" /\ reads'[s] = reads[s] + 1
                \/ /\ reads[s] = Len(ReadOrder)
                   /\ pc'[s] = "loaded"
                   /\ ret'[s] = Outcome("", FullView)
                   /\ cache' = [set |-> TRUE, value |-> FullView]
          /\ (pc'[s] = "loaded") => ret'[s] = Outcome("", FullView)
      ]_vars

\* A session has the full view although an earlier call failed, while
\* another session still shows that failure.
C2_Witness ==
    /\ everFailed
    /\ present = FileNames
    /\ \E s, t \in Sessions :
          /\ pc[s] = "loaded" /\ ret[s].value = FullView /\ FullView # <<>>
          /\ pc[t] = "failed" /\ ret[t].raised = "FileNotFoundError"

View == FullView
CallDone == caller = "filter_data" /\ result.raised = ""

RECURSIVE IsSubSeq(_, _)
IsSubSeq(a, b) ==
    IF a = <<>> THEN TRUE
    ELSE IF b = <<>> THEN FALSE
    ELSE IF Head(a) = Head(b) THEN IsSubSeq(Tail(a), Tail(b))
    ELSE IsSubSeq(a, Tail(b))

RegionOnly == filter_data(View, arg_state, All_y).value

\* C4: the rows filter_data returns for (region, year) are a subsequence of
\* the rows it returns for (region, "All"), which are a subsequence of the
\* view: nothing is added, duplicated or altered.
C4_FilterSubset ==
    CallDone =>
        /\ IsSubSeq(result.value, RegionOnly)
        /\ IsSubSeq(RegionOnly, View)
        /\ \A i \in 1..Len(result.value) :
              \E j \in 1..Len(View) : View[j] = result.value[i]

C4_Witness ==
    /\ CallDone
    /\ arg_state # "All" /\ py_ne(arg_year, All_y)
    /\ 0 < Len(result.value)
    /\ Len(result.value) < Len(RegionOnly)
    /\ Len(RegionOnly) < Len(View)

\* ---- properties of main (SpecView)
AfterFilter  == {"filtered", "col1", "col2", "col3", "col4", "map", "pie", "bar",
                 "done"}
AfterMetrics == {"col4", "map", "pie", "bar", "done"}

\* C5: with "All" for both arguments filter_data returns the whole view, rows
\* and order unchanged, and that is what main gets when both selectboxes
\* show 'Todos'.
C5_AllAllIsIdentity ==
    \A s \in Sessions :
        (pc[s] \in AfterFilter \cup {"failed"} /\ selected_state[s] = "Todos"
            /\ selected_year[s] = Todos_y) =>
            /\ pc[s] # "failed"
            /\ filtered_df[s] = Outcome("", FullView)
            /\ filtered_df[s] = filter_data(ret[s].value, "All", All_y)

C5_Witness ==
    \E s \in Sessions :
        /\ pc[s] = "filtered"
        /\ selected_state[s] = "Todos" /\ selected_year[s] = Todos_y
        /\ Len(filtered_df[s].value) >= 2
        /\ \E i \in 1..Len(FullView) : FullView[i].StateProvince = NA
        /\ \E i \in 1..Len(FullView) : FullView[i].CalendarYear = NaN

\* C6: with a concrete region no returned row has a missing State Province,
\* and with a concrete year no returned row has a missing Calendar Year.
C6_NullsExcluded ==
    CallDone =>
        /\ arg_state # "All" =>
              \A i \in 1..Len(result.value) : result.value[i].StateProvince # NA
        /\ py_ne(arg_year, All_y) =>
              \A i \in 1..Len(result.value) : result.value[i].CalendarYear # NaN

\* A view with a row without state and a row without year, filtered by a
\* concrete state and a concrete year that some row has.
C6_Witness ==
    /\ CallDone
    /\ arg_state # "All" /\ py_ne(arg_year, All_y)
    /\ result.value # <<>>
    /\ \E i \in 1..Len(View) : View[i].StateProvince = NA
    /\ \E i \in 1..Len(View) : View[i].CalendarYear = NaN

\* The year arguments that are neither "All" nor text or numbers int() accepts.
NotCoercible ==
    { Todos_y, PyNone,
      PyStr(<<50, 48, 49, 51, 46, 48>>),
      PyStr(<<97, 98, 99>>),
      PyStr(<<>>),
      PyStr([i \in 1..(MaxStrDigits + 1) |-> 49]) }

\* C7: a year argument that is not "All" and cannot be converted makes
\* filter_data raise; no rows are returned in its place.
C7_BadYearRaises ==
    (caller = "filter_data" /\ arg_year \in NotCoercible) =>
        /\ result.raised \in {"ValueError", "TypeError"}
        /\ result.value = <<>>

C7_Witness ==
    /\ caller = "filter_data" /\ arg_year \in NotCoercible
    /\ result.raised = "ValueError"
    /\ arg_state # "All"
    /\ RegionOnly # <<>>

\* C8: when the filtered view is empty main still computes the four metrics:
\* both unique counts and the total are 0 and the average is NaN.
C8_EmptyAggregate ==
    \A s \in Sessions :
        (pc[s] \in AfterMetrics /\ filtered_df[s].value = <<>>) =>
            /\ summary[s].unique_colors = 0
            /\ summary[s].unique_sizes = 0
            /\ summary[s].total_revenue = Zero
            /\ summary[s].avg_unit_price = nan

\* A selection of an existing state and an existing year that no row has
\* together; the four metrics have been computed.
C8_Witness ==
    \E s \in Sessions :
        /\ pc[s] = "col4" /\ filtered_df[s] = Outcome("", <<>>)
        /\ ret[s].value # <<>>
        /\ selected_state[s] # "Todos" /\ py_ne(selected_year[s], Todos_y)
        /\ summary[s].avg_unit_price.nan

Keys(g) == [j \in 1..Len(g) |-> g[j].key]
NonNull(ks) == SelectSeq(ks, LAMBDA k : k # NA)
FilledNull(ks, p) == [i \in 1..Len(ks) |-> IF ks[i] = NA THEN p ELSE ks[i]]
Ascending(ks) == \A i, j \in 1..Len(ks) : i < j => str_lt(ks[i], ks[j])

\* The group sums of g, added up in the order of the groups.
SumOfGroups(g) == seq_sum(Zero, [j \in 1..Len(g) |-> g[j].value])

\* The exact sum of the prices, in hundredths.
RECURSIVE CentsTotal(_)
CentsTotal(vs) == IF vs = <<>> THEN 0 ELSE Head(vs) + CentsTotal(Tail(vs))

\* Every row is in exactly one group of g, every group has a row, and the
\* value of a group is the sum of the prices of its rows.
OneGroupPerRow(g, ks, vs) ==
    /\ \A i \in 1..Len(ks) :
          Cardinality({j \in 1..Len(g) : g[j].key = ks[i]}) = 1
    /\ \A j \in 1..Len(g) :
          /\ \E i \in 1..Len(ks) : ks[i] = g[j].key
          /\ g[j].value = group_sum(GroupValues(ks, vs, g[j].key))
          /\ round2(g[j].value) = CentsTotal(GroupValues(ks, vs, g[j].key))

UnfilteredDone(s) ==
    pc[s] = "done" /\ selected_state[s] = "Todos" /\ selected_year[s] = Todos_y

\* ---- properties of one run of main (SpecRun)
\* C9 as stated: over the unfiltered view the group sums by size and the
\* group sums by brand each add up to the total revenue, as the floats the
\* program computes.
C9_GroupSumsAddUp ==
    \A s \in Sessions : UnfilteredDone(s) =>
        /\ SumOfGroups(summary[s].size_sales) = summary[s].total_revenue
        /\ SumOfGroups(summary[s].brand_sales) = summary[s].total_revenue

\* C9 amended: over the unfiltered view every row is in exactly one size
\* group and in exactly one brand group ('Sin Talla' and 'Sin Marca' take
\* the rows without size or brand), so the group sums and the total are
\* sums of the same prices: rounded to the cent they are the exact sum, and
\* they are equal as floats when every price is a whole amount.
C9_GroupSumsAgree ==
    \A s \in Sessions : UnfilteredDone(s) =>
        LET rows   == filtered_df[s].value
            prices == Col(rows, "UnitPrice")
            bySize == SumOfGroups(summary[s].size_sales)
            byBrand == SumOfGroups(summary[s].brand_sales)
        IN  /\ rows = FullView
            /\ OneGroupPerRow(summary[s].size_sales,
                              FilledNull(Col(rows, "Size"), "Sin Talla"), prices)
            /\ OneGroupPerRow(summary[s].brand_sales,
                              FilledNull(Col(rows, "Brand"), "Sin Marca"), prices)
            /\ round2(summary[s].total_revenue) = CentsTotal(prices)
            /\ round2(bySize) = CentsTotal(prices)
            /\ round2(byBrand) = CentsTotal(prices)
            /\ (\A i \in 1..Len(prices) : prices[i] % 100 = 0) =>
                  /\ bySize = summary[s].total_revenue
                  /\ byBrand = summary[s].total_revenue

\* Rows with and without size and brand whose groups add up to another
\* float than the total (0.2 + 1.0 = 1.2, the total of 0.1, 1.0, 0.1 is
\* 1.2000000000000002), the same to the cent.
C9_Witness ==
    \E s \in Sessions :
        /\ UnfilteredDone(s)
        /\ \E i \in 1..Len(FullView) :
              FullView[i].Size = NA /\ FullView[i].Brand = NA
        /\ \E i \in 1..Len(FullView) :
              FullView[i].Size # NA /\ FullView[i].Brand # NA
        /\ \E j \in 1..Len(summary[s].size_sales) :
              summary[s].size_sales[j].key = "Sin Talla"
        /\ \E j \in 1..Len(summary[s].brand_sales) :
              summary[s].brand_sales[j].key = "Sin Marca"
        /\ SumOfGroups(summary[s].size_sales) # summary[s].total_revenue
        /\ SumOfGroups(summary[s].brand_sales) # summary[s].total_revenue
        /\ round2(SumOfGroups(summary[s].size_sales))
              = round2(summary[s].total_revenue)

\* ---- order of the groups (SpecView)

\* C10 as stated: the groups of each categorical aggregate appear in the
\* order in which their keys first occur in the filtered rows.
C10_FirstSeenOrder ==
    \A s \in Sessions : pc[s] = "done" =>
        LET rows == filtered_df[s].value
        IN  /\ Keys(summary[s].state_revenue)
                  = first_seen(NonNull(Col(rows, "StateProvince")))
            /\ Keys(summary[s].state_tax)
                  = first_seen(NonNull(Col(rows, "StateProvince")))
            /\ Keys(summary[s].size_sales)
                  = first_seen(FilledNull(Col(rows, "Size"), "Sin Talla"))
            /\ Keys(summary[s].brand_sales)
                  = first_seen(FilledNull(Col(rows, "Brand"), "Sin Marca"))

\* C10 amended: the groups of each categorical aggregate appear in ascending
\* order of their keys, whatever the order of the rows, one group per key
\* that occurs.
C10_SortedOrder ==
    \A s \in Sessions : pc[s] = "done" =>
        LET rows == filtered_df[s].value
        IN  /\ Ascending(Keys(summary[s].state_revenue))
            /\ Ascending(Keys(summary[s].state_tax))
            /\ Ascending(Keys(summary[s].size_sales))
            /\ Ascending(Keys(summary[s].brand_sales))
            /\ Range(Keys(summary[s].state_revenue))
                  = Range(Col(rows, "StateProvince")) \ {NA}
            /\ Range(Keys(summary[s].state_tax))
                  = Range(Col(rows, "StateProvince")) \ {NA}
            /\ Range(Keys(summary[s].size_sales))
                  = Range(FilledNull(Col(rows, "Size"), "Sin Talla"))
            /\ Range(Keys(summary[s].brand_sales))
                  = Range(FilledNull(Col(rows, "Brand"), "Sin Marca"))

\* Rows in which California comes before Alaska and size M before size L.
C10_Witness ==
    \E s \in Sessions :
        /\ pc[s] = "done"
        /\ Len(summary[s].state_revenue) >= 2
        /\ Keys(summary[s].state_revenue)
              # first_seen(NonNull(Col(filtered_df[s].value, "StateProvince")))
        /\ Keys(summary[s].size_sales)
              # first_seen(FilledNull(Col(filtered_df[s].value, "Size"),
                                      "Sin Talla"))

====
